---- MODULE Spec2Model ----
(***************************************************************************)
(* MathLib (examples/cmake-library): add, multiply, divide_safe and the    *)
(* smoke-test driver main().                                               *)
(*                                                                         *)
(* int is modelled as a two's-complement integer of IntBits bits and       *)
(* double as a binary floating-point format with ExpBits exponent bits and *)
(* MantBits fraction bits (IEEE 754 layout: signed zeros, subnormals,      *)
(* infinities, one NaN, round-to-nearest-even).  Each call runs in the     *)
(* frame of the thread that makes it and advances one statement at a time. *)
(***************************************************************************)
EXTENDS Integers, Sequences, FiniteSets, TLC

\* ---------------------------------------------------------------- bounds
IntBits == 6
ExpBits == 3
MantBits == 2
NThreads == 2

RECURSIVE Pow2(_)
Pow2(n) == IF n <= 0 THEN 1 ELSE 2 * Pow2(n - 1)

\* ------------------------------------------------------------------- int
IntMin == -Pow2(IntBits - 1)
IntMax == Pow2(IntBits - 1) - 1
Int_ == IntMin..IntMax
InRange(v) == IntMin <= v /\ v <= IntMax
\* two's-complement reduction of a mathematical integer to IntBits bits
Wrap(v) == ((v - IntMin) % Pow2(IntBits)) + IntMin

\* what a build does with a signed overflow (undefined behaviour in C):
\* the machine instruction wraps, the build traps (-ftrapv, a sanitizer),
\* or the result is any int at all
OverflowModes == {"wrap", "trap", "undef"}

\* ---------------------------------------------------------------- double
\* a double is its bit pattern: sign, biased exponent, fraction
ExpAllOnes == Pow2(ExpBits) - 1
Bias == Pow2(ExpBits - 1) - 1
Hidden == Pow2(MantBits)
\* the real value of a finite x is Mag(x) * 2^-Scale
Scale == Bias - 1 + MantBits

Bits(s, e, m) == (s * Pow2(ExpBits) + e) * Hidden + m
Sign(x) == x \div (Pow2(ExpBits) * Hidden)
Exp(x) == (x \div Hidden) % Pow2(ExpBits)
Man(x) == x % Hidden

NaN == Bits(0, ExpAllOnes, Hidden \div 2)
Inf(s) == Bits(s, ExpAllOnes, 0)
Zero(s) == Bits(s, 0, 0)
MinSubnormal == Bits(0, 0, 1)

IsNaN(x) == Exp(x) = ExpAllOnes /\ Man(x) # 0
IsInf(x) == Exp(x) = ExpAllOnes /\ Man(x) = 0
IsFinite(x) == Exp(x) < ExpAllOnes
IsZero(x) == Exp(x) = 0 /\ Man(x) = 0

\* every double, with one NaN standing for all NaNs
Double == {x \in 0..(2 * Pow2(ExpBits) * Hidden - 1) : IsNaN(x) => x = NaN}

\* magnitude of a finite x in units of the smallest subnormal
Mag(x) == IF Exp(x) = 0 THEN Man(x)
          ELSE (Hidden + Man(x)) * Pow2(Exp(x) - 1)
MaxMag == (2 * Hidden - 1) * Pow2(ExpAllOnes - 2)

\* the biased exponent of the binade a magnitude m >= Hidden lies in
RECURSIVE Binade(_)
Binade(m) == IF m < 2 * Hidden THEN 1 ELSE 1 + Binade(m \div 2)

\* the double of sign s and magnitude m, m being representable or too large
Pack(s, m) ==
    IF m > MaxMag THEN Inf(s)
    ELSE IF m < Hidden THEN Bits(s, 0, m)
    ELSE Bits(s, Binade(m), (m \div Pow2(Binade(m) - 1)) - Hidden)

\* p / d rounded to the nearest integer, ties to even
RoundHalfEven(p, d) ==
    LET q == p \div d
        r == p % d
    IN  IF 2 * r > d \/ (2 * r = d /\ q % 2 = 1) THEN q + 1 ELSE q

\* the number of low bits a quotient q >= 0 loses to fit MantBits + 1 bits
RECURSIVE Shift(_)
Shift(q) == IF q < 2 * Hidden THEN 0 ELSE 1 + Shift(q \div 2)

\* the magnitude p / d (in units of the smallest subnormal) rounded to the
\* nearest representable magnitude, ties to even
RoundMag(p, d) ==
    LET k == Shift(p \div d)
    IN  RoundHalfEven(p, d * Pow2(k)) * Pow2(k)

\* the literal n.0 for a small natural n, and -n.0
Lit(n) == Pack(0, n * Pow2(Scale))
NegLit(n) == Pack(1, n * Pow2(Scale))

\* C's x == y on doubles
FEq(x, y) ==
    /\ ~IsNaN(x)
    /\ ~IsNaN(y)
    /\ \/ x = y
       \/ IsZero(x) /\ IsZero(y)

\* C's x / y on doubles (IEEE 754 division, default rounding, no traps)
FDiv(x, y) ==
    LET s == (Sign(x) + Sign(y)) % 2
    IN  IF IsNaN(x) \/ IsNaN(y) THEN NaN
        ELSE IF IsInf(x) THEN (IF IsInf(y) THEN NaN ELSE Inf(s))
        ELSE IF IsInf(y) THEN Zero(s)
        ELSE IF IsZero(y) THEN (IF IsZero(x) THEN NaN ELSE Inf(s))
        ELSE Pack(s, RoundMag(Mag(x) * Pow2(Scale), Mag(y)))

\* ------------------------------------------------------------ math_ops.c
\* (faulty variants of add, which the properties below must tell from it:
\* a + a for a + b; a - b for a + b)
AddFirstTwice(x, y) == x + x
AddAsSubtract(x, y) == x - y

\* line 4: the expression a + b, as a mathematical integer
add(x, y) == x + y

\* (faulty variants of multiply: a + b for a * b; a * a for a * b)
MultiplyAsAdd(x, y) == x + y
MultiplyFirstTwice(x, y) == x * x

\* line 8: the expression a * b, as a mathematical integer
multiply(x, y) == x * y

\* (faulty variants of the condition: a comparison of the representations, which
\* misses -0.0; a comparison against the smallest normal, which takes the
\* subnormals for zero)
ZeroDenominatorBitwise(y) == y = Lit(0)
ZeroDenominatorEpsilon(y) == Exp(y) = 0

\* line 12: the condition b == 0.0
ZeroDenominator(y) == FEq(y, Lit(0))

\* (faulty variant of the fallback: NAN for 0.0)
FallbackNaN == NaN

\* line 13: the value of return 0.0
Fallback == Lit(0)

\* (faulty variant of the quotient: b / a for a / b)
QuotientSwapped(x, y) == FDiv(y, x)

\* line 15: the expression a / b
Quotient(x, y) == FDiv(x, y)

\* the first statement of each function
Entry(f) == CASE f = "add" -> "L4"
              [] f = "multiply" -> "L8"
              [] f = "divide_safe" -> "L12"

\* ----------------------------------------------------------------- state
VARIABLES
    overflow,   \* how this build treats signed overflow
    tty,        \* whether stdout is a terminal (line buffered) or not
    frame,      \* per thread: the call in progress (fn, pc, a, b, ret)
    mpc,        \* main's position (the line of its next statement)
    sum, product, result, safe,     \* main's locals
    buf,        \* stdout's buffer: the lines printf has formatted
    out,        \* the lines written to file descriptor 1
    exitCode

vars == <<overflow, tty, frame, mpc, sum, product, result, safe, buf, out,
          exitCode>>
mainVars == <<mpc, sum, product, result, safe, buf, out, exitCode>>

Main == 0
Workers == 1..NThreads
Threads == {Main} \cup Workers

\* a frame holds the function, the place in it, the arguments <<a, b>> and,
\* once the function has returned, the value <<ret>>
Idle == [fn |-> "none", pc |-> "idle", args |-> <<>>, ret |-> <<>>]
A(f) == f.args[1]
B(f) == f.args[2]
Ret(f) == f.ret[1]

\* a trap (abort) ends the whole process
Aborted == \E t \in Threads : frame[t].pc = "trapped"

\* whether thread t can make a call: it is running and in no call
CanCall(t) == ~Aborted /\ frame[t].pc = "idle"

\* the caller's side of a call: the arguments are copied into a new frame
Call(t, f, x, y) ==
    frame' = [frame EXCEPT ![t] = [fn |-> f, pc |-> Entry(f),
                                   args |-> <<x, y>>, ret |-> <<>>]]

\* (faulty variant of the return: the value goes through a static variable, which
\* every caller still waiting for its value reads)
ReturnIntStatic(t, v) ==
    frame' = [u \in Threads |->
                IF u = t
                THEN [frame[u] EXCEPT !.pc = "returned", !.ret = <<Wrap(v)>>]
                ELSE IF frame[u].pc = "returned"
                        /\ frame[u].fn \in {"add", "multiply"}
                     THEN [frame[u] EXCEPT !.ret = <<Wrap(v)>>]
                     ELSE frame[u]]

\* return of the int expression whose mathematical value is v
ReturnInt(t, v) ==
    IF InRange(v)
    THEN frame' = [frame EXCEPT ![t].pc = "returned", ![t].ret = <<v>>]
    ELSE \/ /\ overflow = "wrap"
            /\ frame' = [frame EXCEPT ![t].pc = "returned",
                                      ![t].ret = <<Wrap(v)>>]
         \/ /\ overflow = "trap"
            /\ frame' = [frame EXCEPT ![t].pc = "trapped"]
         \/ /\ overflow = "undef"
            /\ \E r \in Int_ :
                 frame' = [frame EXCEPT ![t].pc = "returned",
                                        ![t].ret = <<r>>]

\* add, line 4: return a + b;
AddL4(t) ==
    /\ ~Aborted
    /\ frame[t].fn = "add"
    /\ frame[t].pc = "L4"
    /\ ReturnInt(t, add(A(frame[t]), B(frame[t])))

\* multiply, line 8: return a * b;
MultiplyL8(t) ==
    /\ ~Aborted
    /\ frame[t].fn = "multiply"
    /\ frame[t].pc = "L8"
    /\ ReturnInt(t, multiply(A(frame[t]), B(frame[t])))

\* divide_safe, line 12: if (b == 0.0)
DivideL12(t) ==
    /\ ~Aborted
    /\ frame[t].fn = "divide_safe"
    /\ frame[t].pc = "L12"
    /\ frame' = [frame EXCEPT ![t].pc =
                   IF ZeroDenominator(B(frame[t])) THEN "L13" ELSE "L15"]

\* divide_safe, line 13: return 0.0;
DivideL13(t) ==
    /\ ~Aborted
    /\ frame[t].fn = "divide_safe"
    /\ frame[t].pc = "L13"
    /\ frame' = [frame EXCEPT ![t].pc = "returned", ![t].ret = <<Fallback>>]

\* divide_safe, line 15: return a / b;
DivideL15(t) ==
    /\ ~Aborted
    /\ frame[t].fn = "divide_safe"
    /\ frame[t].pc = "L15"
    /\ frame' = [frame EXCEPT
                   ![t].pc = "returned",
                   ![t].ret = <<Quotient(A(frame[t]), B(frame[t]))>>]

\* one statement of the library, run by thread t
LibStep(t) ==
    \/ AddL4(t)
    \/ MultiplyL8(t)
    \/ DivideL12(t)
    \/ DivideL13(t)
    \/ DivideL15(t)

\* the caller takes the returned value; the frame is gone
Resume(t) ==
    /\ ~Aborted
    /\ frame[t].pc = "returned"
    /\ frame' = [frame EXCEPT ![t] = Idle]

\* main's locals hold nothing before their initialization (<<>>), the
\* process has no exit status before it exits
InitMain ==
    /\ mpc = "L5"
    /\ sum = <<>>
    /\ product = <<>>
    /\ result = <<>>
    /\ safe = <<>>
    /\ buf = <<>>
    /\ out = <<>>
    /\ exitCode = <<>>

Init ==
    /\ overflow \in OverflowModes
    /\ tty \in BOOLEAN
    /\ frame = [t \in Threads |-> Idle]
    /\ InitMain

\* ---------------------------------------- one caller, every argument value
\* the int arguments tried: the ends of the range, their neighbours, and
\* small values of both signs
IntInputs == {IntMin, IntMin + 1, -7, -5, -4, -3, -1, 0, 1, 3, 4, 5, 7,
              IntMax - 1, IntMax}

CallAdd(t, X) ==
    /\ CanCall(t)
    /\ \E x \in X, y \in X : Call(t, "add", x, y)
    /\ UNCHANGED <<overflow, tty, mainVars>>

CallMultiply(t, X) ==
    /\ CanCall(t)
    /\ \E x \in X, y \in X : Call(t, "multiply", x, y)
    /\ UNCHANGED <<overflow, tty, mainVars>>

CallDivide(t, X) ==
    /\ CanCall(t)
    /\ \E x \in X, y \in X : Call(t, "divide_safe", x, y)
    /\ UNCHANGED <<overflow, tty, mainVars>>

Run(t) ==
    /\ LibStep(t)
    /\ UNCHANGED <<overflow, tty, mainVars>>

Take(t) ==
    /\ Resume(t)
    /\ UNCHANGED <<overflow, tty, mainVars>>

Next ==
    \/ CallAdd(1, IntInputs)
    \/ CallMultiply(1, IntInputs)
    \/ CallDivide(1, Double)
    \/ Run(1)
    \/ Take(1)

Spec == Init /\ [][Next]_vars

\* ------------------------------------------------------------ test_math.c
\* printf's %d conversion
FmtD(n) == ToString(n)

\* the two digits of 0 <= n < 100
TwoDigits(n) == ToString(n \div 10) \o ToString(n % 10)

\* printf's %.2f conversion: the value rounded to hundredths, ties to even
Fmt2f(x) ==
    LET sgn == IF Sign(x) = 1 THEN "-" ELSE ""
        h == RoundHalfEven(Mag(x) * 100, Pow2(Scale))
    IN  IF IsNaN(x) THEN sgn \o "nan"
        ELSE IF IsInf(x) THEN sgn \o "inf"
        ELSE sgn \o ToString(h \div 100) \o "." \o TwoDigits(h % 100)

\* the strings main prints
Banner == "Testing MathLib (built with Poltergeist)\n"
AddLine(v) == "add(5, 3) = " \o FmtD(v) \o "\n"
MultiplyLine(v) == "multiply(4, 7) = " \o FmtD(v) \o "\n"
DivideLine(v) == "divide_safe(10.0, 2.0) = " \o Fmt2f(v) \o "\n"
SafeLine(v) == "divide_safe(5.0, 0.0) = " \o Fmt2f(v) \o " (safe!)\n"

\* (faulty variant of main's return value: the number of tests run)
ExitStatusCount == Len(sum \o product \o result \o safe)

\* main's return value
ExitStatus == 0

\* printf of a string ending in a newline: a line-buffered stdout writes it
\* at once, a fully buffered one keeps it
Printf(s) ==
    IF tty
    THEN out' = out \o buf \o <<s>> /\ buf' = <<>>
    ELSE buf' = Append(buf, s) /\ out' = out

\* main at line l calls f(x, y)
MainCall(l, f, x, y) ==
    /\ mpc = l
    /\ CanCall(Main)
    /\ Call(Main, f, x, y)
    /\ UNCHANGED <<overflow, tty, mainVars>>

\* the call main made at line l has returned
MainReturned(l) == ~Aborted /\ mpc = l /\ frame[Main].pc = "returned"

\* line 5: printf("Testing MathLib (built with Poltergeist)\n");
MainL5 ==
    /\ ~Aborted
    /\ mpc = "L5"
    /\ Printf(Banner)
    /\ mpc' = "L8"
    /\ UNCHANGED <<overflow, tty, frame, sum, product, result, safe, exitCode>>

\* line 8: int sum = add(5, 3);
MainL8Call == MainCall("L8", "add", 5, 3)

MainL8Assign ==
    /\ MainReturned("L8")
    /\ sum' = frame[Main].ret
    /\ frame' = [frame EXCEPT ![Main] = Idle]
    /\ mpc' = "L9"
    /\ UNCHANGED <<overflow, tty, product, result, safe, buf, out, exitCode>>

\* line 9: printf("add(5, 3) = %d\n", sum);
MainL9 ==
    /\ ~Aborted
    /\ mpc = "L9"
    /\ Printf(AddLine(sum[1]))
    /\ mpc' = "L12"
    /\ UNCHANGED <<overflow, tty, frame, sum, product, result, safe, exitCode>>

\* line 12: int product = multiply(4, 7);
MainL12Call == MainCall("L12", "multiply", 4, 7)

MainL12Assign ==
    /\ MainReturned("L12")
    /\ product' = frame[Main].ret
    /\ frame' = [frame EXCEPT ![Main] = Idle]
    /\ mpc' = "L13"
    /\ UNCHANGED <<overflow, tty, sum, result, safe, buf, out, exitCode>>

\* line 13: printf("multiply(4, 7) = %d\n", product);
MainL13 ==
    /\ ~Aborted
    /\ mpc = "L13"
    /\ Printf(MultiplyLine(product[1]))
    /\ mpc' = "L16"
    /\ UNCHANGED <<overflow, tty, frame, sum, product, result, safe, exitCode>>

\* line 16: double result = divide_safe(10.0, 2.0);
MainL16Call == MainCall("L16", "divide_safe", Lit(10), Lit(2))

MainL16Assign ==
    /\ MainReturned("L16")
    /\ result' = frame[Main].ret
    /\ frame' = [frame EXCEPT ![Main] = Idle]
    /\ mpc' = "L17"
    /\ UNCHANGED <<overflow, tty, sum, product, safe, buf, out, exitCode>>

\* line 17: printf("divide_safe(10.0, 2.0) = %.2f\n", result);
MainL17 ==
    /\ ~Aborted
    /\ mpc = "L17"
    /\ Printf(DivideLine(result[1]))
    /\ mpc' = "L20"
    /\ UNCHANGED <<overflow, tty, frame, sum, product, result, safe, exitCode>>

\* line 20: double safe = divide_safe(5.0, 0.0);
MainL20Call == MainCall("L20", "divide_safe", Lit(5), Lit(0))

MainL20Assign ==
    /\ MainReturned("L20")
    /\ safe' = frame[Main].ret
    /\ frame' = [frame EXCEPT ![Main] = Idle]
    /\ mpc' = "L21"
    /\ UNCHANGED <<overflow, tty, sum, product, result, buf, out, exitCode>>

\* line 21: printf("divide_safe(5.0, 0.0) = %.2f (safe!)\n", safe);
MainL21 ==
    /\ ~Aborted
    /\ mpc = "L21"
    /\ Printf(SafeLine(safe[1]))
    /\ mpc' = "L23"
    /\ UNCHANGED <<overflow, tty, frame, sum, product, result, safe, exitCode>>

\* line 23: return 0;  the C runtime flushes stdout and the process exits
MainL23 ==
    /\ ~Aborted
    /\ mpc = "L23"
    /\ out' = out \o buf
    /\ buf' = <<>>
    /\ exitCode' = <<ExitStatus>>
    /\ mpc' = "exited"
    /\ UNCHANGED <<overflow, tty, frame, sum, product, result, safe>>

\* the statements of the library main's calls run
MainLib == Run(Main)

NextDriver ==
    \/ MainL5
    \/ MainL8Call
    \/ MainL8Assign
    \/ MainL9
    \/ MainL12Call
    \/ MainL12Assign
    \/ MainL13
    \/ MainL16Call
    \/ MainL16Assign
    \/ MainL17
    \/ MainL20Call
    \/ MainL20Assign
    \/ MainL21
    \/ MainL23
    \/ MainLib

\* main is the only thread of the process: it runs whenever it can
SpecDriver == Init /\ [][NextDriver]_vars /\ WF_vars(NextDriver)

\* ------------------------------------- several callers, no synchronization
\* the arguments tried: for int the ends of the range and a small value,
\* for double 0.0, -2.0, 5.0 and NaN
IntSamples == {IntMin, 3, IntMax}
DoubleSamples == {Lit(0), NegLit(2), Lit(5), NaN}

NextConc ==
    \E t \in Workers :
        \/ CallAdd(t, IntSamples)
        \/ CallMultiply(t, IntSamples)
        \/ CallDivide(t, DoubleSamples)
        \/ Run(t)
        \/ Take(t)

InitConc ==
    /\ Init
    /\ overflow \in {"wrap", "trap"}
    /\ tty

SpecConc == InitConc /\ [][NextConc]_vars

\* ---------------------------------------------------------------- claims
Returned(t, f) == frame[t].fn = f /\ frame[t].pc = "returned"

\* C1: whatever a is, a call divide_safe(a, b) with b zero (0.0 or -0.0)
\* goes from line 12 to line 13 only, never reaches the division of line 15
\* and never traps, and the value it returns is +0.0.
C1_ZeroDenominatorReturnsFallback ==
    \A t \in Threads :
        (frame[t].fn = "divide_safe" /\ IsZero(B(frame[t]))) =>
            /\ frame[t].pc \in {"L12", "L13", "returned"}
            /\ frame[t].pc = "returned" => Ret(frame[t]) = Zero(0)

\* a call with a NaN numerator and a -0.0 denominator has returned
C1_Witness ==
    /\ Returned(1, "divide_safe")
    /\ IsNaN(A(frame[1]))
    /\ B(frame[1]) = Zero(1)

\* C2: a call divide_safe(a, b) with b not zero (NaN and the infinities
\* included) goes from line 12 to line 15 only, never takes the fallback
\* branch of line 13, and the value it returns is the IEEE quotient a / b.
C2_NonzeroDenominatorReturnsQuotient ==
    \A t \in Threads :
        (frame[t].fn = "divide_safe" /\ ~IsZero(B(frame[t]))) =>
            /\ frame[t].pc \in {"L12", "L15", "returned"}
            /\ frame[t].pc = "returned" =>
                   Ret(frame[t]) = FDiv(A(frame[t]), B(frame[t]))

\* a call whose denominator is the smallest subnormal has returned an
\* infinite quotient
C2_Witness ==
    /\ Returned(1, "divide_safe")
    /\ B(frame[1]) = MinSubnormal
    /\ A(frame[1]) = Lit(5)
    /\ Ret(frame[1]) = Inf(0)

\* C3: add accepts every pair of ints (its only statement is the return of
\* line 4), it fails only where the sum overflows, and whenever the sum
\* a + b is representable the value it returns is that sum.
C3_AddReturnsSum ==
    \A t \in Threads :
        frame[t].fn = "add" =>
            /\ frame[t].pc \in {"L4", "returned", "trapped"}
            /\ frame[t].pc = "trapped" => ~InRange(A(frame[t]) + B(frame[t]))
            /\ (frame[t].pc = "returned" /\ InRange(A(frame[t]) + B(frame[t])))
                   => Ret(frame[t]) = A(frame[t]) + B(frame[t])

\* add(INT_MIN, INT_MAX) has returned -1
C3_Witness ==
    /\ Returned(1, "add")
    /\ A(frame[1]) = IntMin
    /\ B(frame[1]) = IntMax
    /\ Ret(frame[1]) = -1

\* C4: multiply accepts every pair of ints (its only statement is the
\* return of line 8), it fails only where the product overflows, and
\* whenever the product a * b is representable the value it returns is that
\* product.
C4_MultiplyReturnsProduct ==
    \A t \in Threads :
        frame[t].fn = "multiply" =>
            /\ frame[t].pc \in {"L8", "returned", "trapped"}
            /\ frame[t].pc = "trapped" => ~InRange(A(frame[t]) * B(frame[t]))
            /\ (frame[t].pc = "returned" /\ InRange(A(frame[t]) * B(frame[t])))
                   => Ret(frame[t]) = A(frame[t]) * B(frame[t])

\* multiply(INT_MIN, 1) has returned INT_MIN
C4_Witness ==
    /\ Returned(1, "multiply")
    /\ A(frame[1]) = IntMin
    /\ B(frame[1]) = 1
    /\ Ret(frame[1]) = IntMin

\* the calls of threads t and u are the same function on swapped arguments
Swapped(t, u) ==
    /\ frame[t].fn = frame[u].fn
    /\ A(frame[t]) = B(frame[u])
    /\ B(frame[t]) = A(frame[u])

\* C5: whenever a call add(a, b) and a call add(b, a) have both returned,
\* they have returned the same value, also where the sum overflows and the
\* build wraps around.
C5_AddCommutes ==
    \A t, u \in Threads :
        (Returned(t, "add") /\ Returned(u, "add") /\ Swapped(t, u))
            => Ret(frame[t]) = Ret(frame[u])

\* add(a, b) and add(b, a), a # b, have both returned after an overflow
C5_Witness ==
    \E t, u \in Threads :
        /\ Returned(t, "add") /\ Returned(u, "add") /\ Swapped(t, u)
        /\ A(frame[t]) # B(frame[t])
        /\ ~InRange(A(frame[t]) + B(frame[t]))

\* C6: whenever a call multiply(a, b) and a call multiply(b, a) have both
\* returned, they have returned the same value, also where the product
\* overflows and the build wraps around.
C6_MultiplyCommutes ==
    \A t, u \in Threads :
        (Returned(t, "multiply") /\ Returned(u, "multiply") /\ Swapped(t, u))
            => Ret(frame[t]) = Ret(frame[u])

\* multiply(a, b) and multiply(b, a), a # b, have both returned after an
\* overflow
C6_Witness ==
    \E t, u \in Threads :
        /\ Returned(t, "multiply") /\ Returned(u, "multiply")
        /\ Swapped(t, u)
        /\ A(frame[t]) # B(frame[t])
        /\ ~InRange(A(frame[t]) * B(frame[t]))

\* the value a call returns when it runs alone: the int of the
\* mathematical value v under this build
AloneInt(v) == IF InRange(v) THEN v ELSE Wrap(v)

\* what the frame of a finished call holds when the call ran alone
AsAlone(f) ==
    CASE f.fn = "add" ->
           IF f.pc = "trapped"
           THEN overflow = "trap" /\ ~InRange(A(f) + B(f))
           ELSE Ret(f) = AloneInt(A(f) + B(f))
      [] f.fn = "multiply" ->
           IF f.pc = "trapped"
           THEN overflow = "trap" /\ ~InRange(A(f) * B(f))
           ELSE Ret(f) = AloneInt(A(f) * B(f))
      [] f.fn = "divide_safe" ->
           /\ f.pc = "returned"
           /\ Ret(f) = IF IsZero(B(f)) THEN Zero(0) ELSE FDiv(A(f), B(f))

\* every finished call ended as it ends when run alone on its arguments
ResultsAsAlone ==
    \A t \in Threads :
        frame[t].pc \in {"returned", "trapped"} => AsAlone(frame[t])

\* a step changes the frame of one thread and nothing else
OwnFrameOnly ==
    /\ UNCHANGED <<overflow, tty, mainVars>>
    /\ \A t, u \in Threads :
         (frame'[t] # frame[t] /\ u # t) => frame'[u] = frame[u]

\* C7: with several threads calling add, multiply and divide_safe at once
\* and no synchronization, under every interleaving each call ends with the
\* value it returns when run alone on the same arguments, and each step of
\* a call changes the frame of its own thread and nothing else.
C7_CallsIndependent == []ResultsAsAlone /\ [][OwnFrameOnly]_vars

\* two threads have both returned from calls made on different arguments,
\* each call entered while the other was in progress or finished
C7_Witness ==
    \E t, u \in Workers :
        /\ t # u
        /\ Returned(t, "add") /\ Returned(u, "multiply")
        /\ A(frame[t]) # A(frame[u])
        /\ Ret(frame[t]) # Ret(frame[u])

\* C8: main reaches its final return and the process exits with status 0;
\* no path of main stops earlier or exits with another status.
C8_DriverExitsZero == <>(mpc = "exited" /\ exitCode = <<0>> /\ ~Aborted)

\* main has exited with status 0 after the division by zero returned 0.0
C8_Witness ==
    /\ mpc = "exited"
    /\ exitCode = <<0>>
    /\ safe = <<Zero(0)>>

\* everything printf has formatted so far, in order
Printed == out \o buf

\* main is in no call, or in the call f(x, y), which returns v if at all
InCall(f, x, y, v) ==
    \/ frame[Main].pc = "idle"
    \/ /\ frame[Main].fn = f
       /\ A(frame[Main]) = x
       /\ B(frame[Main]) = y
       /\ frame[Main].pc # "trapped"
       /\ frame[Main].pc = "returned" => Ret(frame[Main]) = v

Line1 == "Testing MathLib (built with Poltergeist)\n"
Line2 == "add(5, 3) = 8\n"
Line3 == "multiply(4, 7) = 28\n"
Line4 == "divide_safe(10.0, 2.0) = 5.00\n"
Line5 == "divide_safe(5.0, 0.0) = 0.00 (safe!)\n"

\* C9: main makes the four calls add(5,3), multiply(4,7),
\* divide_safe(10.0,2.0), divide_safe(5.0,0.0) in this order and no other,
\* gets 8, 28, 5.0 and 0.0, and prints the banner and then one line per
\* call, each before the next call is made; at exit the five lines are
\* written in this order.
C9_DriverCallsAndLines ==
    /\ mpc = "L5" => Printed = <<>> /\ frame[Main].pc = "idle"
    /\ mpc = "L8" => Printed = <<Line1>> /\ InCall("add", 5, 3, 8)
    /\ mpc = "L9" => /\ Printed = <<Line1>>
                     /\ frame[Main].pc = "idle"
                     /\ sum = <<8>>
    /\ mpc = "L12" => /\ Printed = <<Line1, Line2>>
                      /\ InCall("multiply", 4, 7, 28)
    /\ mpc = "L13" => /\ Printed = <<Line1, Line2>>
                      /\ frame[Main].pc = "idle"
                      /\ product = <<28>>
    /\ mpc = "L16" => /\ Printed = <<Line1, Line2, Line3>>
                      /\ InCall("divide_safe", Lit(10), Lit(2), Lit(5))
    /\ mpc = "L17" => /\ Printed = <<Line1, Line2, Line3>>
                      /\ frame[Main].pc = "idle"
                      /\ result = <<Lit(5)>>
    /\ mpc = "L20" => /\ Printed = <<Line1, Line2, Line3, Line4>>
                      /\ InCall("divide_safe", Lit(5), Lit(0), Zero(0))
    /\ mpc = "L21" => /\ Printed = <<Line1, Line2, Line3, Line4>>
                      /\ frame[Main].pc = "idle"
                      /\ safe = <<Zero(0)>>
    /\ mpc = "L23" => /\ Printed = <<Line1, Line2, Line3, Line4, Line5>>
                      /\ frame[Main].pc = "idle"
    /\ mpc = "exited" => /\ out = <<Line1, Line2, Line3, Line4, Line5>>
                         /\ buf = <<>>
                         /\ frame[Main].pc = "idle"
    /\ mpc \in {"L5", "L8", "L9", "L12", "L13", "L16", "L17", "L20", "L21",
                "L23", "exited"}

\* the process has exited with the five lines written, stdout not being a
\* terminal
C9_Witness ==
    /\ mpc = "exited"
    /\ ~tty
    /\ Len(out) = 5
    /\ sum \o product \o result \o safe = <<8, 28, Lit(5), Lit(0)>>

\* thread t has returned from divide_safe(a, b) with b zero, and thread u
\* from divide_safe(0.0, b) with b not zero
FallbackAndComputed(t, u) ==
    /\ Returned(t, "divide_safe") /\ IsZero(B(frame[t]))
    /\ Returned(u, "divide_safe") /\ A(frame[u]) = Lit(0)
    /\ ~IsZero(B(frame[u]))

\* C10 as stated: for every a and every nonzero b, divide_safe(a, 0.0) and
\* divide_safe(0.0, b) return the same value.
C10_FallbackSameAsComputedZero ==
    \A t, u \in Threads :
        FallbackAndComputed(t, u) => Ret(frame[t]) = Ret(frame[u])

\* C10 as amended: for every a and every b that is neither zero nor NaN,
\* the values of divide_safe(a, 0.0) and divide_safe(0.0, b) compare equal
\* (==), and for positive b they are the same value +0.0; for negative b the
\* computed zero is -0.0, and for a NaN b the computed value is NaN.
C10_FallbackEqualsComputedZero ==
    \A t, u \in Threads :
        FallbackAndComputed(t, u) =>
            /\ ~IsNaN(B(frame[u])) => FEq(Ret(frame[t]), Ret(frame[u]))
            /\ (~IsNaN(B(frame[u])) /\ Sign(B(frame[u])) = 0)
                   => Ret(frame[t]) = Ret(frame[u])
            /\ (~IsNaN(B(frame[u])) /\ Sign(B(frame[u])) = 1)
                   => Ret(frame[u]) = Zero(1)
            /\ IsNaN(B(frame[u])) => IsNaN(Ret(frame[u]))

\* divide_safe(NaN, 0.0) and divide_safe(0.0, 5.0) have both returned
C10_Witness ==
    \E t, u \in Threads :
        /\ FallbackAndComputed(t, u)
        /\ IsNaN(A(frame[t]))
        /\ B(frame[u]) = Lit(5)

====
